---- MODULE Spec2Model ----
(***************************************************************************)
(* monitord, src/units.rs: the systemd unit statistics collector.          *)
(*                                                                         *)
(* A Rust String is modelled as a sequence of chunks.  A chunk is either   *)
(* one of the characters the code looks at ('.', '-', '_') or a maximal    *)
(* run of other characters (a word such as "service").  split and replace  *)
(* work on these sequences as str::split and str::replace work on the      *)
(* characters.  The active-state token is never transformed by the code    *)
(* and is kept as one string.                                              *)
(***************************************************************************)
EXTENDS Integers, Sequences, FiniteSets, TLC

VARIABLES
    pc,        \* position of the running function or of the test harness
    config,    \* crate::config::Config, the fields units.rs reads
    units,     \* the Vec returned by list_units()
    idx,       \* number of loop iterations of parse_unit_state started
    stats,     \* the SystemdUnitStats accumulator
    pre,       \* the accumulator as it was before the last call on it
    call,      \* the last call made, with its arguments and its outcome
    svc_log,   \* what parse_service returned for each unit it was called on
    report     \* what parse_unit_state returned to its caller

vars == <<pc, config, units, idx, stats, pre, call, svc_log, report>>

----------------------------------------------------------------------------
(* Bounds of the model *)

\* a generated unit name has at most this many '.' after its stem
MaxDots == 2
\* list_units() returns at most this many units
MaxUnits == 2
\* a harness makes at most this many parse_state calls on one accumulator
MaxCalls == 2

----------------------------------------------------------------------------
(* Data model *)

SystemdUnitActiveState ==
    {"unknown", "active", "reloading", "inactive", "failed", "activating",
     "deactivating"}

SystemdUnitLoadState == {"unknown", "loaded", "error", "masked", "not_found"}

TypeCounters ==
    {"automount_units", "device_units", "mount_units", "path_units",
     "scope_units", "service_units", "slice_units", "socket_units",
     "target_units", "timer_units"}

LoadCounters == {"loaded_units", "masked_units", "not_found_units"}

ActiveCounters == {"active_units", "failed_units", "inactive_units"}

Counters ==
    TypeCounters \cup LoadCounters \cup ActiveCounters
        \cup {"jobs_queued", "total_units"}

EmptyMap == [n \in {} |-> 0]

\* SystemdUnitStats::default()
DefaultStats ==
    [active_units |-> 0, automount_units |-> 0, device_units |-> 0,
     failed_units |-> 0, inactive_units |-> 0, jobs_queued |-> 0,
     loaded_units |-> 0, masked_units |-> 0, mount_units |-> 0,
     not_found_units |-> 0, path_units |-> 0, scope_units |-> 0,
     service_units |-> 0, slice_units |-> 0, socket_units |-> 0,
     target_units |-> 0, timer_units |-> 0, total_units |-> 0,
     service_stats |-> EmptyMap, unit_states |-> EmptyMap]

\* HashMap::insert: a new key is added, an existing key is overwritten
MapInsert(m, k, v) ==
    [n \in DOMAIN m \cup {k} |-> IF n = k THEN v ELSE m[n]]

\* Vec::contains / slice::contains
Contains(list, x) == \E i \in 1..Len(list) : list[i] = x

----------------------------------------------------------------------------
(* String operations *)

\* str::split(sep).collect::<Vec<&str>>(): one segment more than there are
\* separators; segments may be empty
RECURSIVE split(_, _)
split(s, sep) ==
    IF s = <<>>
    THEN << <<>> >>
    ELSE LET rest == split(Tail(s), sep)
         IN  IF Head(s) = sep
             THEN << <<>> >> \o rest
             ELSE << <<Head(s)>> \o Head(rest) >> \o Tail(rest)

\* str::replace(from, to) for a one-character pattern
replace(s, from, to) ==
    [i \in 1..Len(s) |-> IF s[i] = from THEN to ELSE s[i]]

\* SystemdUnitActiveState::from_str (strum EnumString: the exact variant
\* name, case sensitive); "Err" stands for Err(ParseError)
ActiveState_from_str(tok) ==
    IF tok \in SystemdUnitActiveState THEN tok ELSE "Err"

\* SystemdUnitLoadState::from_str
LoadState_from_str(s) ==
    CASE s = <<"unknown">> -> "unknown"
      [] s = <<"loaded">> -> "loaded"
      [] s = <<"error">> -> "error"
      [] s = <<"masked">> -> "masked"
      [] s = <<"not", "_", "found">> -> "not_found"
      [] OTHER -> "Err"

\* Result::unwrap_or
unwrap_or(r, default) == IF r = "Err" THEN default ELSE r

----------------------------------------------------------------------------
(* Health policy *)

\* is_unit_unhealthy with the catch-all arm returning false: only a loaded
\* unit can be unhealthy
is_unit_unhealthy_loaded_only(active_state, load_state) ==
    load_state = "loaded" /\ active_state # "active"

is_unit_unhealthy(active_state, load_state) ==
    CASE load_state = "loaded" -> ~(active_state = "active")
      [] load_state = "masked" -> FALSE
      [] OTHER -> TRUE

----------------------------------------------------------------------------
(* parse_state *)

\* parse_state with the two list checks in the other order: a name in the
\* allow-list is recorded before the block-list is looked at
parse_state_allow_first(st, unit, allowlist, blocklist) ==
    LET active_state ==
            unwrap_or(ActiveState_from_str(unit.active), "unknown")
        load_state ==
            unwrap_or(LoadState_from_str(replace(unit.load, "-", "_")),
                      "unknown")
        recorded ==
            [st EXCEPT !.unit_states =
                MapInsert(@, unit.name,
                          [active_state |-> active_state,
                           load_state |-> load_state,
                           unhealthy |->
                               is_unit_unhealthy(active_state, load_state)])]
    IN  IF allowlist # <<>>
        THEN IF Contains(allowlist, unit.name) THEN recorded ELSE st
        ELSE IF Contains(blocklist, unit.name) THEN st ELSE recorded

\* parse_state without the replacement of '-' by '_' in the load token
parse_state_no_replace(st, unit, allowlist, blocklist) ==
    IF Contains(blocklist, unit.name)
    THEN st
    ELSE IF allowlist # <<>> /\ ~Contains(allowlist, unit.name)
    THEN st
    ELSE LET active_state ==
                 unwrap_or(ActiveState_from_str(unit.active), "unknown")
             load_state ==
                 unwrap_or(LoadState_from_str(unit.load), "unknown")
         IN  [st EXCEPT !.unit_states =
                 MapInsert(@, unit.name,
                           [active_state |-> active_state,
                            load_state |-> load_state,
                            unhealthy |->
                                is_unit_unhealthy(active_state, load_state)])]

parse_state(st, unit, allowlist, blocklist) ==
    LET unit_name == unit.name
    IN  IF Contains(blocklist, unit_name)
        THEN st
        ELSE IF allowlist # <<>> /\ ~Contains(allowlist, unit_name)
        THEN st
        ELSE LET active_state ==
                     unwrap_or(ActiveState_from_str(unit.active), "unknown")
                 load_state ==
                     unwrap_or(LoadState_from_str(replace(unit.load, "-", "_")),
                               "unknown")
             IN  [st EXCEPT !.unit_states =
                     MapInsert(@, unit_name,
                               [active_state |-> active_state,
                                load_state |-> load_state,
                                unhealthy |->
                                    is_unit_unhealthy(active_state, load_state)])]

----------------------------------------------------------------------------
(* parse_unit *)

Inc(st, counter) == [st EXCEPT ![counter] = @ + 1]

\* parse_unit with a return in the arm for an unrecognised type token
parse_unit_early_return(st, unit) ==
    LET segs == split(unit.name, ".")
        known == {<<"automount">>, <<"device">>, <<"mount">>, <<"path">>,
                  <<"scope">>, <<"service">>, <<"slice">>, <<"socket">>,
                  <<"target">>, <<"timer">>}
    IN  IF Len(segs) < 2
        THEN [panicked |-> TRUE, stats |-> st]
        ELSE IF segs[2] \notin known
        THEN [panicked |-> FALSE, stats |-> st]
        ELSE LET s1 == Inc(st, segs[2][1] \o "_units")
                 s2 == IF unit.load = <<"loaded">>
                       THEN Inc(s1, "loaded_units")
                       ELSE IF unit.load = <<"masked">>
                       THEN Inc(s1, "masked_units")
                       ELSE IF unit.load = <<"not", "-", "found">>
                       THEN Inc(s1, "not_found_units")
                       ELSE s1
                 s3 == IF unit.active \in {"active", "failed", "inactive"}
                       THEN Inc(s2, unit.active \o "_units")
                       ELSE s2
                 s4 == IF unit.job # 0 THEN Inc(s3, "jobs_queued") ELSE s3
             IN  [panicked |-> FALSE, stats |-> s4]

\* parse_unit counting the unit in total_units as well
parse_unit_counts_total(st, unit) ==
    LET segs == split(unit.name, ".")
        known == {<<"automount">>, <<"device">>, <<"mount">>, <<"path">>,
                  <<"scope">>, <<"service">>, <<"slice">>, <<"socket">>,
                  <<"target">>, <<"timer">>}
    IN  IF Len(segs) < 2
        THEN [panicked |-> TRUE, stats |-> st]
        ELSE LET s0 == Inc(st, "total_units")
                 s1 == IF segs[2] \in known
                       THEN Inc(s0, segs[2][1] \o "_units")
                       ELSE s0
                 s2 == IF unit.load = <<"loaded">>
                       THEN Inc(s1, "loaded_units")
                       ELSE IF unit.load = <<"masked">>
                       THEN Inc(s1, "masked_units")
                       ELSE IF unit.load = <<"not", "-", "found">>
                       THEN Inc(s1, "not_found_units")
                       ELSE s1
                 s3 == IF unit.active \in {"active", "failed", "inactive"}
                       THEN Inc(s2, unit.active \o "_units")
                       ELSE s2
                 s4 == IF unit.job # 0 THEN Inc(s3, "jobs_queued") ELSE s3
             IN  [panicked |-> FALSE, stats |-> s4]

\* The result is the accumulator after the call and whether the call
\* panicked: indexing the Vec of segments at [1] panics when the name has no
\* '.', before any counter is touched.
parse_unit(st, unit) ==
    LET segs == split(unit.name, ".")
    IN  IF Len(segs) < 2
        THEN [panicked |-> TRUE, stats |-> st]
        ELSE LET ty == segs[2]
                 s1 == CASE ty = <<"automount">> -> Inc(st, "automount_units")
                         [] ty = <<"device">> -> Inc(st, "device_units")
                         [] ty = <<"mount">> -> Inc(st, "mount_units")
                         [] ty = <<"path">> -> Inc(st, "path_units")
                         [] ty = <<"scope">> -> Inc(st, "scope_units")
                         [] ty = <<"service">> -> Inc(st, "service_units")
                         [] ty = <<"slice">> -> Inc(st, "slice_units")
                         [] ty = <<"socket">> -> Inc(st, "socket_units")
                         [] ty = <<"target">> -> Inc(st, "target_units")
                         [] ty = <<"timer">> -> Inc(st, "timer_units")
                         [] OTHER -> st
                 s2 == CASE unit.load = <<"loaded">> -> Inc(s1, "loaded_units")
                         [] unit.load = <<"masked">> -> Inc(s1, "masked_units")
                         [] unit.load = <<"not", "-", "found">> ->
                                Inc(s1, "not_found_units")
                         [] OTHER -> s1
                 s3 == CASE unit.active = "active" -> Inc(s2, "active_units")
                         [] unit.active = "failed" -> Inc(s2, "failed_units")
                         [] unit.active = "inactive" -> Inc(s2, "inactive_units")
                         [] OTHER -> s2
                 s4 == IF unit.job # 0 THEN Inc(s3, "jobs_queued") ELSE s3
             IN  [panicked |-> FALSE, stats |-> s4]

----------------------------------------------------------------------------
(* parse_service *)

\* The properties read through the proxy, in the order parse_service reads
\* them: get_processes() first, then the struct fields top to bottom.
ServiceReads ==
    <<"GetProcesses", "ActiveEnterTimestamp", "ActiveExitTimestamp",
      "CPUUsageNSec", "InactiveExitTimestamp", "IOReadBytes",
      "IOReadOperations", "MemoryCurrent", "MemoryAvailable", "NRestarts",
      "RestartUSec", "StateChangeTimestamp", "StatusErrno", "TasksCurrent",
      "TimeoutCleanUSec", "WatchdogUSec">>

\* The value the bus returns for the i-th scalar property: all different, so
\* that a field filled from the wrong property shows
PropValue(i) == 100 + i

\* p is what the bus does during one call: fail_at is the index in
\* ServiceReads of the read that returns Err (0: none), nprocs the length of
\* the process list and fits_u32 whether that usize converts to u32 (the
\* model's integers are narrower than usize, so the outcome of try_into()
\* is carried beside the number).  Each read is followed by '?', so the
\* first failing read returns Err from parse_service.  The result is
\* [ok |-> FALSE] for Err(_) and [ok |-> TRUE, value |-> v] for Ok(v).
parse_service(p) ==
    IF p.fail_at # 0
    THEN [ok |-> FALSE]
    ELSE [ok |-> TRUE, value |->
         [active_enter_timestamp |-> PropValue(2),
          active_exit_timestamp |-> PropValue(3),
          cpuusage_nsec |-> PropValue(4),
          inactive_exit_timestamp |-> PropValue(5),
          ioread_bytes |-> PropValue(6),
          ioread_operations |-> PropValue(7),
          memory_current |-> PropValue(8),
          memory_available |-> PropValue(9),
          nrestarts |-> PropValue(10),
          processes |-> IF p.fits_u32 THEN p.nprocs ELSE 0,
          restart_usec |-> PropValue(11),
          state_change_timestamp |-> PropValue(12),
          status_errno |-> PropValue(13),
          tasks_current |-> PropValue(14),
          timeout_clean_usec |-> PropValue(15),
          watchdog_usec |-> PropValue(16)]]

----------------------------------------------------------------------------
(* Inputs *)

TypeTokens ==
    {"automount", "device", "mount", "path", "scope", "service", "slice",
     "socket", "target", "timer"}

\* the words a name is built from: the ten counted types, a unit type that
\* has no counter ("swap") and a word that is no unit type
Words == TypeTokens \cup {"swap", "x"}

\* the names with exactly k '.' after the stem "x"
RECURSIVE NamesWithDots(_)
NamesWithDots(k) ==
    IF k = 0
    THEN {<<"x">>}
    ELSE {n \o <<".", w>> : n \in NamesWithDots(k - 1), w \in Words}

UnitNames == UNION {NamesWithDots(k) : k \in 0..MaxDots}

\* load-state tokens on the wire; "not_found" and "bad-setting" are tokens
\* parse_unit has no counter for
LoadTokens ==
    {<<"loaded">>, <<"masked">>, <<"error">>, <<"not", "-", "found">>,
     <<"not", "_", "found">>, <<"bad", "-", "setting">>}

\* active-state tokens on the wire; "Active" differs from a member by case
ActiveTokens == SystemdUnitActiveState \cup {"Active"}

\* queued-job ids (u32)
JobIds == {0, 1, 65535}

\* the fields of the list_units tuple that units.rs reads: .0, .2, .3, .7
UnitRecords ==
    [name : UnitNames, load : LoadTokens, active : ActiveTokens, job : JobIds]

NoUnit == [name |-> <<>>, load |-> <<>>, active |-> "", job |-> 0]

NoCall ==
    [op |-> "none", unit |-> NoUnit, allowlist |-> <<>>, blocklist |-> <<>>,
     active_state |-> "unknown", load_state |-> "unknown", ret |-> FALSE,
     panicked |-> FALSE, failed |-> FALSE]

NoConfig ==
    [state_stats |-> FALSE, state_stats_allowlist |-> <<>>,
     state_stats_blocklist |-> <<>>, services |-> {}]

NoReport == [result |-> "none"]

----------------------------------------------------------------------------
(* SpecUnit: parse_unit called on a fresh accumulator, as test_unit_parse  *)
(* does, for every record of UnitRecords.                                  *)

InitUnit ==
    /\ pc = "test_unit_parse"
    /\ config = NoConfig
    /\ units = <<>>
    /\ idx = 0
    /\ stats = DefaultStats
    /\ pre = DefaultStats
    /\ call = NoCall
    /\ svc_log = <<>>
    /\ report = NoReport

CallParseUnit ==
    /\ pc = "test_unit_parse"
    /\ \E u \in UnitRecords :
          LET r == parse_unit(stats, u)
          IN  /\ pre' = stats
              /\ stats' = r.stats
              /\ call' = [NoCall EXCEPT !.op = "parse_unit", !.unit = u,
                                        !.panicked = r.panicked]
              /\ pc' = IF r.panicked THEN "panicked" ELSE "returned"
    /\ UNCHANGED <<config, units, idx, svc_log, report>>

NextUnit == CallParseUnit

SpecUnit == InitUnit /\ [][NextUnit]_vars

----------------------------------------------------------------------------
(* SpecState: is_unit_unhealthy and parse_state called directly, as        *)
(* test_is_unit_healthy and test_state_parse do.  In test_state_parse the  *)
(* accumulator is kept from one parse_state call to the next; idx counts   *)
(* the calls.                                                              *)

ServiceName == <<"x", ".", "service">>
TimerName == <<"x", ".", "timer">>
SwapName == <<"x", ".", "swap">>

StateNames == {ServiceName, TimerName}

StateRecords ==
    [name : StateNames, load : LoadTokens, active : ActiveTokens, job : {0}]

StateAllowlists == {<<>>, <<SwapName, ServiceName>>}

StateBlocklists == {<<>>, <<ServiceName>>}

InitState ==
    /\ pc \in {"test_is_unit_healthy", "test_state_parse"}
    /\ config = NoConfig
    /\ units = <<>>
    /\ idx = 0
    /\ stats = DefaultStats
    /\ pre = DefaultStats
    /\ call = NoCall
    /\ svc_log = <<>>
    /\ report = NoReport

CallParseState ==
    /\ pc = "test_state_parse"
    /\ idx < MaxCalls
    /\ \E u \in StateRecords, al \in StateAllowlists, bl \in StateBlocklists :
          /\ pre' = stats
          /\ stats' = parse_state(stats, u, al, bl)
          /\ call' = [NoCall EXCEPT !.op = "parse_state", !.unit = u,
                                    !.allowlist = al, !.blocklist = bl]
    /\ idx' = idx + 1
    /\ UNCHANGED <<pc, config, units, svc_log, report>>

CallIsUnitUnhealthy ==
    /\ pc = "test_is_unit_healthy"
    /\ \E a \in SystemdUnitActiveState, l \in SystemdUnitLoadState :
          call' = [NoCall EXCEPT !.op = "is_unit_unhealthy",
                                 !.active_state = a, !.load_state = l,
                                 !.ret = is_unit_unhealthy(a, l)]
    /\ UNCHANGED <<pc, config, units, idx, stats, pre, svc_log, report>>

NextState == CallParseState \/ CallIsUnitUnhealthy

SpecState == InitState /\ [][NextState]_vars

----------------------------------------------------------------------------
(* Spec: one pass of parse_unit_state.                                     *)

PassNames == {ServiceName, TimerName, SwapName}

\* "error" has no load counter and "activating" no active counter
PassRecords ==
    [name : PassNames, load : {<<"loaded">>, <<"error">>},
     active : {"active", "activating"}, job : {0, 1}]

\* the Vecs list_units() can return: systemd lists every unit once, under its
\* primary name, so the names of a Vec are distinct
RECURSIVE Enumerations(_)
Enumerations(n) ==
    IF n = 0
    THEN {<<>>}
    ELSE LET shorter == Enumerations(n - 1)
         IN  shorter \cup
             {Append(us, u) :
                 us \in {e \in shorter : Len(e) = n - 1},
                 u \in PassRecords}

DistinctNames(us) ==
    \A i, j \in 1..Len(us) : i # j => us[i].name # us[j].name

UnitLists == {us \in Enumerations(MaxUnits) : DistinctNames(us)}

\* no list at all, or an allow-list that leaves x.swap out with a
\* block-list that takes x.timer out
PassLists ==
    {[allow |-> <<>>, block |-> <<>>],
     [allow |-> <<ServiceName, TimerName>>, block |-> <<TimerName>>]}

Configs ==
    {[state_stats |-> b, state_stats_allowlist |-> l.allow,
      state_stats_blocklist |-> l.block, services |-> sv] :
        b \in BOOLEAN, l \in PassLists, sv \in {{}, {ServiceName, TimerName}}}

\* what the bus can do during one parse_service call
ProxyBehaviours ==
    [fail_at : 0..Len(ServiceReads), nprocs : {3}, fits_u32 : BOOLEAN]

Init ==
    /\ pc = "start"
    /\ config \in Configs
    /\ units = <<>>
    /\ idx = 0
    /\ stats = DefaultStats
    /\ pre = DefaultStats
    /\ call = NoCall
    /\ svc_log = <<>>
    /\ report = NoReport

\* Connection::new_system()? succeeds
ConnectOk ==
    /\ pc = "start"
    /\ pc' = "connected"
    /\ UNCHANGED <<config, units, idx, stats, pre, call, svc_log, report>>

\* Connection::new_system()? fails: '?' returns the error, stats is dropped
ConnectErr ==
    /\ pc = "start"
    /\ pc' = "done"
    /\ call' = [NoCall EXCEPT !.op = "new_system", !.failed = TRUE]
    /\ report' = [result |-> "Err"]
    /\ UNCHANGED <<config, units, idx, stats, pre, svc_log>>

\* list_units() succeeds and total_units is left at 0
ListUnitsOk_no_total ==
    /\ pc = "connected"
    /\ \E us \in UnitLists : units' = us
    /\ call' = [NoCall EXCEPT !.op = "list_units"]
    /\ pc' = "loop"
    /\ UNCHANGED <<config, idx, stats, pre, svc_log, report>>

\* p.list_units()? succeeds; stats.total_units = units.len()
ListUnitsOk ==
    /\ pc = "connected"
    /\ \E us \in UnitLists :
          /\ units' = us
          /\ stats' = [stats EXCEPT !.total_units = Len(us)]
    /\ call' = [NoCall EXCEPT !.op = "list_units"]
    /\ pc' = "loop"
    /\ UNCHANGED <<config, idx, pre, svc_log, report>>

\* a failed list_units() taken as an empty Vec (unwrap_or_default)
ListUnitsErr_unwrap_or_default ==
    /\ pc = "connected"
    /\ units' = <<>>
    /\ stats' = [stats EXCEPT !.total_units = 0]
    /\ call' = [NoCall EXCEPT !.op = "list_units", !.failed = TRUE]
    /\ pc' = "loop"
    /\ UNCHANGED <<config, idx, pre, svc_log, report>>

\* p.list_units()? fails
ListUnitsErr ==
    /\ pc = "connected"
    /\ pc' = "done"
    /\ call' = [NoCall EXCEPT !.op = "list_units", !.failed = TRUE]
    /\ report' = [result |-> "Err"]
    /\ UNCHANGED <<config, units, idx, stats, pre, svc_log>>

\* the loop takes the next unit and calls parse_unit on it
FoldParseUnit ==
    /\ pc = "loop"
    /\ idx < Len(units)
    /\ idx' = idx + 1
    /\ LET r == parse_unit(stats, units[idx + 1])
       IN  /\ pre' = stats
           /\ stats' = r.stats
           /\ call' = [NoCall EXCEPT !.op = "parse_unit",
                                     !.unit = units[idx + 1],
                                     !.panicked = r.panicked]
           /\ pc' = IF r.panicked THEN "panicked" ELSE "state"
    /\ UNCHANGED <<config, units, svc_log, report>>

\* parse_state called whatever config.units.state_stats says
FoldParseState_unconditional ==
    /\ pc = "state"
    /\ pre' = stats
    /\ stats' = parse_state(stats, units[idx], config.state_stats_allowlist,
                            config.state_stats_blocklist)
    /\ call' = [NoCall EXCEPT !.op = "parse_state", !.unit = units[idx],
                              !.allowlist = config.state_stats_allowlist,
                              !.blocklist = config.state_stats_blocklist]
    /\ pc' = "service"
    /\ UNCHANGED <<config, units, idx, svc_log, report>>

\* if config.units.state_stats { parse_state(...) }
FoldParseState ==
    /\ pc = "state"
    /\ pre' = stats
    /\ IF config.state_stats
       THEN /\ stats' = parse_state(stats, units[idx],
                                    config.state_stats_allowlist,
                                    config.state_stats_blocklist)
            /\ call' = [NoCall EXCEPT
                           !.op = "parse_state", !.unit = units[idx],
                           !.allowlist = config.state_stats_allowlist,
                           !.blocklist = config.state_stats_blocklist]
       ELSE /\ stats' = stats
            /\ call' = NoCall
    /\ pc' = "service"
    /\ UNCHANGED <<config, units, idx, svc_log, report>>

\* ServiceStats::default(), every field 0
DefaultServiceStats ==
    [active_enter_timestamp |-> 0, active_exit_timestamp |-> 0,
     cpuusage_nsec |-> 0, inactive_exit_timestamp |-> 0, ioread_bytes |-> 0,
     ioread_operations |-> 0, memory_current |-> 0, memory_available |-> 0,
     nrestarts |-> 0, processes |-> 0, restart_usec |-> 0,
     state_change_timestamp |-> 0, status_errno |-> 0, tasks_current |-> 0,
     timeout_clean_usec |-> 0, watchdog_usec |-> 0]

\* the Err arm inserting a zero-filled ServiceStats (unwrap_or_default)
FoldParseService_default_on_err ==
    /\ pc = "service"
    /\ pre' = stats
    /\ IF units[idx].name \in config.services
       THEN \E p \in ProxyBehaviours :
               LET r == parse_service(p)
                   v == IF r.ok THEN r.value ELSE DefaultServiceStats
               IN  /\ stats' = [stats EXCEPT !.service_stats =
                                   MapInsert(@, units[idx].name, v)]
                   /\ svc_log' = Append(svc_log,
                                        [name |-> units[idx].name,
                                         result |-> r])
                   /\ call' = [NoCall EXCEPT !.op = "parse_service",
                                             !.unit = units[idx],
                                             !.failed = ~r.ok]
       ELSE /\ stats' = stats
            /\ svc_log' = svc_log
            /\ call' = NoCall
    /\ pc' = "loop"
    /\ UNCHANGED <<config, units, idx, report>>

\* if config.services.contains(&unit.0) { match parse_service(...) {...} }
FoldParseService ==
    /\ pc = "service"
    /\ pre' = stats
    /\ IF units[idx].name \in config.services
       THEN \E p \in ProxyBehaviours :
               LET r == parse_service(p)
               IN  /\ stats' = IF r.ok
                               THEN [stats EXCEPT !.service_stats =
                                        MapInsert(@, units[idx].name, r.value)]
                               ELSE stats
                   /\ svc_log' = Append(svc_log,
                                        [name |-> units[idx].name,
                                         result |-> r])
                   /\ call' = [NoCall EXCEPT !.op = "parse_service",
                                             !.unit = units[idx],
                                             !.failed = ~r.ok]
       ELSE /\ stats' = stats
            /\ svc_log' = svc_log
            /\ call' = NoCall
    /\ pc' = "loop"
    /\ UNCHANGED <<config, units, idx, report>>

\* Ok(stats) after the last unit
Return ==
    /\ pc = "loop"
    /\ idx = Len(units)
    /\ pc' = "done"
    /\ report' = [result |-> "Ok", stats |-> stats]
    /\ UNCHANGED <<config, units, idx, stats, pre, call, svc_log>>

Next ==
    \/ ConnectOk
    \/ ConnectErr
    \/ ListUnitsOk
    \/ ListUnitsErr
    \/ FoldParseUnit
    \/ FoldParseState
    \/ FoldParseService
    \/ Return

Spec == Init /\ [][Next]_vars

----------------------------------------------------------------------------
(* Vocabulary of the properties, written without the operators above *)

Range(list) == {list[i] : i \in 1..Len(list)}

Min(S) == CHOOSE x \in S : \A y \in S : x <= y

Max(S) == CHOOSE x \in S : \A y \in S : x >= y

Dots(name) == {i \in 1..Len(name) : name[i] = "."}

HasDot(name) == Dots(name) # {}

\* what stands between the first '.' of a name and its next '.' (or its end)
SecondSegment(name) ==
    LET first == Min(Dots(name))
        later == {i \in Dots(name) : i > first}
        stop == IF later = {} THEN Len(name) + 1 ELSE Min(later)
    IN  SubSeq(name, first + 1, stop - 1)

\* what stands after the last '.' of a name: its type suffix
TypeSuffix(name) == SubSeq(name, Max(Dots(name)) + 1, Len(name))

\* the type token each type counter stands for
TokenOf ==
    [automount_units |-> "automount", device_units |-> "device",
     mount_units |-> "mount", path_units |-> "path", scope_units |-> "scope",
     service_units |-> "service", slice_units |-> "slice",
     socket_units |-> "socket", target_units |-> "target",
     timer_units |-> "timer"]

\* the raw load token and the raw active token each state counter stands for
LoadTokenOf ==
    [loaded_units |-> <<"loaded">>, masked_units |-> <<"masked">>,
     not_found_units |-> <<"not", "-", "found">>]

ActiveTokenOf ==
    [active_units |-> "active", failed_units |-> "failed",
     inactive_units |-> "inactive"]

One(b) == IF b THEN 1 ELSE 0

----------------------------------------------------------------------------
(* Properties of parse_unit, under SpecUnit *)

\* C3: for every unit record (a name with at least one '.'), parse_unit
\* applies four tallies that do not depend on each other: exactly 1 on the
\* type counter of the type token (the second '.'-segment; none if it is
\* unrecognised), exactly 1 on loaded/masked/not_found_units for the raw load
\* tokens "loaded"/"masked"/"not-found" (none otherwise), exactly 1 on
\* active/failed/inactive_units for the raw active tokens (none otherwise),
\* and exactly 1 on jobs_queued iff the queued-job id is not 0.
ParseUnitTallies ==
    (call.op = "parse_unit" /\ HasDot(call.unit.name)) =>
        /\ ~call.panicked
        /\ \A c \in TypeCounters :
              stats[c] = pre[c]
                  + One(SecondSegment(call.unit.name) = <<TokenOf[c]>>)
        /\ \A c \in LoadCounters :
              stats[c] = pre[c] + One(call.unit.load = LoadTokenOf[c])
        /\ \A c \in ActiveCounters :
              stats[c] = pre[c] + One(call.unit.active = ActiveTokenOf[c])
        /\ stats.jobs_queued = pre.jobs_queued + One(call.unit.job # 0)

\* a unit of an uncounted type, with an uncounted load token, still counted
\* as failed and as having a job queued
ParseUnitTalliesWitness ==
    /\ call.op = "parse_unit"
    /\ call.unit = [name |-> <<"x", ".", "swap">>,
                    load |-> <<"bad", "-", "setting">>,
                    active |-> "failed", job |-> 65535]
    /\ stats.failed_units = 1
    /\ stats.jobs_queued = 1
    /\ \A c \in TypeCounters \cup LoadCounters : stats[c] = 0

\* C9: for every record whose name's last '.'-segment is one of the ten type
\* tokens, parse_unit adds one to exactly that type's counter and to no other
\* type counter, whatever the number of '.' in the name; and for every record
\* whose name has a '.', parse_unit completes without failure.
TypeSuffixCounted ==
    (call.op = "parse_unit" /\ HasDot(call.unit.name)) =>
        /\ ~call.panicked
        /\ (\E c \in TypeCounters : TypeSuffix(call.unit.name) = <<TokenOf[c]>>)
              => \A c \in TypeCounters :
                    stats[c] = pre[c]
                        + One(TypeSuffix(call.unit.name) = <<TokenOf[c]>>)

----------------------------------------------------------------------------
(* Properties of is_unit_unhealthy and parse_state, under SpecState *)

Admitted(name, allowlist, blocklist) ==
    /\ name \notin Range(blocklist)
    /\ Len(allowlist) = 0 \/ name \in Range(allowlist)

\* the member a raw active token stands for
ActiveOfToken(tok) ==
    IF tok \in {"unknown", "active", "reloading", "inactive", "failed",
                "activating", "deactivating"}
    THEN tok
    ELSE "unknown"

\* the member a raw load token stands for, '-' read as '_'
LoadOfToken(tok) ==
    IF tok \in {<<"loaded">>, <<"error">>, <<"masked">>}
    THEN tok[1]
    ELSE IF tok \in {<<"not", "-", "found">>, <<"not", "_", "found">>}
    THEN "not_found"
    ELSE "unknown"

\* the health rule as a table
UnhealthyTable(active, load) ==
    \/ load = "loaded" /\ active # "active"
    \/ load \in {"unknown", "error", "not_found"}

\* the entry a record stands for
EntryOf(u) ==
    [active_state |-> ActiveOfToken(u.active),
     load_state |-> LoadOfToken(u.load),
     unhealthy |-> UnhealthyTable(ActiveOfToken(u.active),
                                  LoadOfToken(u.load))]

\* C2: parse_state writes unit_states[name] iff the name is not in the
\* block-list and (the allow-list is empty or the name is in it): a name in
\* both lists gets no entry, an empty allow-list admits every name that is
\* not block-listed.
FilterDecidesEntry ==
    call.op = "parse_state" =>
        IF Admitted(call.unit.name, call.allowlist, call.blocklist)
        THEN /\ call.unit.name \in DOMAIN stats.unit_states
             /\ stats.unit_states[call.unit.name].active_state
                    = ActiveOfToken(call.unit.active)
             /\ stats.unit_states[call.unit.name].load_state
                    = LoadOfToken(call.unit.load)
        ELSE stats.unit_states = pre.unit_states

\* a name in both lists, after a call that recorded another unit: no entry
FilterDecidesEntryWitness ==
    /\ call.op = "parse_state"
    /\ call.unit.name \in Range(call.allowlist)
    /\ call.unit.name \in Range(call.blocklist)
    /\ DOMAIN pre.unit_states = {TimerName}
    /\ DOMAIN stats.unit_states = {TimerName}

\* C6: every entry of unit_states has unhealthy = is_unit_unhealthy of its
\* active_state and load_state, where active_state is the case-exact parse of
\* the raw active token (unknown if none) and load_state the parse of the raw
\* load token with '-' read as '_' (unknown if none), so "not-found" is
\* recorded as not_found; a later record of the same name overwrites the
\* earlier one.
UnhealthyDerived ==
    /\ \A n \in DOMAIN stats.unit_states :
          stats.unit_states[n].unhealthy
              = is_unit_unhealthy(stats.unit_states[n].active_state,
                                  stats.unit_states[n].load_state)
    /\ (/\ call.op = "parse_state"
        /\ Admitted(call.unit.name, call.allowlist, call.blocklist)) =>
          /\ DOMAIN stats.unit_states
                = DOMAIN pre.unit_states \cup {call.unit.name}
          /\ stats.unit_states[call.unit.name] = EntryOf(call.unit)
          /\ \A n \in DOMAIN pre.unit_states \ {call.unit.name} :
                stats.unit_states[n] = pre.unit_states[n]

\* a unit recorded as loaded and active is recorded again as "not-found"
UnhealthyDerivedWitness ==
    /\ call.op = "parse_state"
    /\ call.unit.name \in DOMAIN pre.unit_states
    /\ pre.unit_states[call.unit.name]
           = [active_state |-> "active", load_state |-> "loaded",
              unhealthy |-> FALSE]
    /\ call.unit.load = <<"not", "-", "found">>
    /\ stats.unit_states[call.unit.name]
           = [active_state |-> "active", load_state |-> "not_found",
              unhealthy |-> TRUE]

----------------------------------------------------------------------------
(* Properties of one pass of parse_unit_state, under Spec *)

\* the units that have gone through parse_state: all the units taken from
\* the Vec, but the current one while the loop stands before parse_state
Recorded == IF pc = "state" THEN idx - 1 ELSE idx

\* every tally counter is the number of units, among the first idx of the
\* enumeration, that carry its token: a function of the enumeration alone,
\* not of the configuration nor of the bus
TalliesAsExpected ==
    LET folded == 1..idx
        token == [i \in folded |-> SecondSegment(units[i].name)]
    IN  /\ \A c \in TypeCounters :
              stats[c]
                  = Cardinality({i \in folded : token[i] = <<TokenOf[c]>>})
        /\ \A c \in LoadCounters :
              stats[c]
                  = Cardinality({i \in folded :
                                    units[i].load = LoadTokenOf[c]})
        /\ \A c \in ActiveCounters :
              stats[c]
                  = Cardinality({i \in folded :
                                    units[i].active = ActiveTokenOf[c]})
        /\ stats.jobs_queued
              = Cardinality({i \in folded : units[i].job # 0})

\* unit_states after the first Recorded units, with state_stats on
ExpectedUnitStates ==
    LET admitted ==
            {i \in 1..Recorded :
                Admitted(units[i].name, config.state_stats_allowlist,
                         config.state_stats_blocklist)}
    IN  [n \in {units[i].name : i \in admitted} |->
            EntryOf(units[CHOOSE i \in admitted : units[i].name = n])]

TypeTally(st) ==
    st.automount_units + st.device_units + st.mount_units + st.path_units
        + st.scope_units + st.service_units + st.slice_units
        + st.socket_units + st.target_units + st.timer_units

LoadTally(st) == st.loaded_units + st.masked_units + st.not_found_units

ActiveTally(st) == st.active_units + st.failed_units + st.inactive_units

\* C4: if the unit-enumeration step fails (the connection cannot be opened or
\* list_units returns an error), parse_unit_state returns an error and no
\* report: no unit is folded, no property read is issued, no partially
\* filled SystemdUnitStats is handed to the caller.
EnumerationFailureNoReport ==
    /\ (call.op \in {"new_system", "list_units"} /\ call.failed) =>
          /\ pc = "done"
          /\ report = [result |-> "Err"]
    /\ report.result = "Err" =>
          /\ idx = 0
          /\ svc_log = <<>>
          /\ stats = DefaultStats

\* list_units failed on an open connection and the caller holds an error
EnumerationFailureNoReportWitness ==
    /\ call.op = "list_units"
    /\ call.failed
    /\ pc = "done"
    /\ report.result = "Err"

\* C5: if a property read fails for a service of the extraction set, the pass
\* still completes and returns a report in which that service has no entry in
\* service_stats, while every counter, every unit_states entry and every
\* other service's entry is what it would have been had the reads succeeded;
\* the units after the failing one are still folded.
ServiceFailureIsolated ==
    /\ (call.op = "parse_service" /\ call.failed) =>
          /\ stats = pre
          /\ pc = "loop" \/ (pc = "done" /\ report.result = "Ok")
    /\ \A i \in 1..Len(svc_log) :
          IF svc_log[i].result.ok
          THEN /\ svc_log[i].name \in DOMAIN stats.service_stats
               /\ stats.service_stats[svc_log[i].name]
                      = svc_log[i].result.value
          ELSE svc_log[i].name \notin DOMAIN stats.service_stats
    /\ DOMAIN stats.service_stats
          = {svc_log[i].name : i \in {j \in 1..Len(svc_log) :
                                         svc_log[j].result.ok}}
    /\ TalliesAsExpected
    /\ config.state_stats => stats.unit_states = ExpectedUnitStates
    /\ (pc = "done" /\ svc_log # <<>>) =>
          /\ report = [result |-> "Ok", stats |-> stats]
          /\ idx = Len(units)

\* the reads fail for the first of two services and succeed for the second;
\* both units are recorded in unit_states
ServiceFailureIsolatedWitness ==
    /\ pc = "done"
    /\ report.result = "Ok"
    /\ Len(svc_log) = 2
    /\ ~svc_log[1].result.ok
    /\ svc_log[2].result.ok
    /\ DOMAIN report.stats.service_stats = {svc_log[2].name}
    /\ Cardinality(DOMAIN report.stats.unit_states) = 2
    /\ report.stats.jobs_queued = 2

\* C7: parse_state changes nothing in the report except unit_states (the
\* eighteen counters and service_stats are unchanged; when the unit is
\* filtered out the whole report is unchanged); parse_unit changes nothing
\* except the type, load-state, active-state and jobs_queued counters
\* (total_units, unit_states and service_stats are unchanged).
FrameEffects ==
    /\ call.op = "parse_state" =>
          /\ \A f \in Counters \cup {"service_stats"} : stats[f] = pre[f]
          /\ ~Admitted(call.unit.name, call.allowlist, call.blocklist)
                => stats = pre
    /\ call.op = "parse_unit" =>
          /\ stats.total_units = pre.total_units
          /\ stats.unit_states = pre.unit_states
          /\ stats.service_stats = pre.service_stats

\* parse_state records the second unit in a report that already has counters
\* above 0, a unit_states entry and a service_stats entry
FrameEffectsWitness ==
    /\ call.op = "parse_state"
    /\ idx = 2
    /\ pre.jobs_queued = 2
    /\ DOMAIN pre.service_stats # {}
    /\ DOMAIN pre.unit_states # {}
    /\ stats.unit_states # pre.unit_states

\* C8: when state_stats is false, unit_states is empty in every state of the
\* pass and in the returned report, whatever the enumeration, the allow-list
\* and the block-list, while the counters are those of a pass over the same
\* enumeration with state_stats true (in every pass they are the numbers
\* TalliesAsExpected gives, which no configuration field enters).
StateStatsOff ==
    /\ TalliesAsExpected
    /\ ~config.state_stats =>
          /\ stats.unit_states = EmptyMap
          /\ report.result = "Ok" => report.stats.unit_states = EmptyMap

\* a pass over two units with state_stats false and a non-empty allow-list
StateStatsOffWitness ==
    /\ pc = "done"
    /\ report.result = "Ok"
    /\ ~config.state_stats
    /\ config.state_stats_allowlist # <<>>
    /\ Len(units) = 2
    /\ report.stats.service_units = 1
    /\ report.stats.loaded_units = 2
    /\ report.stats.unit_states = EmptyMap

\* C10: in every state of a successful pass total_units is the length of the
\* enumeration, no counter decreases from one step of the fold to the next,
\* and each of the four tallies (the ten type counters together, the three
\* load counters together, the three active counters together, jobs_queued)
\* is at most the number of records folded so far, hence at most total_units.
CountersBounded ==
    report.result # "Err" =>
        /\ stats.total_units = Len(units)
        /\ \A c \in Counters : pre[c] <= stats[c]
        /\ TypeTally(stats) <= idx
        /\ LoadTally(stats) <= idx
        /\ ActiveTally(stats) <= idx
        /\ stats.jobs_queued <= idx
        /\ idx <= stats.total_units

\* two units, one of an uncounted type: the job tally reaches total_units,
\* the type tally stays below it
CountersBoundedWitness ==
    /\ pc = "done"
    /\ report.result = "Ok"
    /\ report.stats.total_units = 2
    /\ report.stats.jobs_queued = 2
    /\ TypeTally(report.stats) = 1
    /\ ActiveTally(report.stats) = 0

====
